---- MODULE Spec2Model ----
(***************************************************************************)
(* The validation and ledger core of uclcoin: class BlockChain of          *)
(* src/blockchain.py.  The chain state is the pair (blocks,                *)
(* pending_transactions); the operations are add_block,                    *)
(* push_pending_transaction, remove_pending_transaction and                *)
(* get_minable_block.  Block and Transaction (uclcoin.block,               *)
(* uclcoin.transaction) are value records; their hashing, signature        *)
(* verification and equality are modelled from the specification.          *)
(*                                                                         *)
(* Spec is the general specification.  SpecTemplate fills the pool beyond  *)
(* the cap of a block, SpecLedger moves coins for the balances to be read, *)
(* SpecQueries adds the read-only calls, SpecPools calls get_minable_block *)
(* on pools of any content.                                                *)
(***************************************************************************)
EXTENDS Integers, Sequences, FiniteSets, TLC

VARIABLES blocks, pending_transactions, candidate, ret

vars == <<blocks, pending_transactions, candidate, ret>>

(***************************************************************************)
(* Bounds of the model.                                                    *)
(***************************************************************************)
\* longest chain the model grows
MaxBlocks == 3
\* longest pending pool of the general specification
MaxPending == 2
\* longest pending pool of the template specification (above the cap of 50)
MaxStream == 52
\* longest pending pool of the pool specification
MaxPool == 3

(***************************************************************************)
(* Class constants.                                                        *)
(***************************************************************************)
COINS_PER_BLOCK == 10
MAX_TRANSACTIONS_PER_BLOCK == 50
MINIMUM_HASH_DIFFICULTY == 6

(***************************************************************************)
(* Addresses.  "0" is the source of coinbase transactions; Addr1 and Addr2 *)
(* are credited by the genesis block; Addr3 is never mentioned by it.      *)
(***************************************************************************)
Sentinel == "0"
Addr1 == "032b72046d335b5318a672763338b08b9642225189ab3f0cba777622cfee0fc07b"
Addr2 == "02f846677f65911f140a42af8fe7c1e5cbc7d148c44057ce49ee0cd0a72b21df4f"
Addr3 == "addr3"
Addresses == {Sentinel, Addr1, Addr2, Addr3}

(***************************************************************************)
(* Transaction(source, destination, amount, fee, timestamp, signature).    *)
(***************************************************************************)
Transaction(source, destination, amount, fee, timestamp, signature) ==
    [source |-> source, destination |-> destination, amount |-> amount,
     fee |-> fee, timestamp |-> timestamp, signature |-> signature]

\* Python's None as an entry of pending_transactions
NoneTx == Transaction("None", "None", 0, 0, 0, "None")

\* the identity hash: a digest of every field but the signature
tx_hash(t) == <<t.source, t.destination, t.amount, t.fee, t.timestamp>>

\* signatures: two distinct ones that verify for a transaction of a real
\* address, the rest do not; the sentinel has no key
SigA == "sigA"
SigB == "sigB"
ValidSignatures == {SigA, SigB}
verify(t) == t.source # Sentinel /\ t.signature \in ValidSignatures

\* Transaction.__eq__: equality of every field
TransactionEq(a, b) == a = b

(***************************************************************************)
(* Hashes are strings, here sequences of characters.                       *)
(***************************************************************************)
Zeros(n) == [i \in 1..n |-> "0"]
HashA == Zeros(6) \o <<"a">>
HashBad == Zeros(5) \o <<"a", "0">>
GenesisHash == Zeros(6) \o <<"9">>
UnminedHash == <<"f", "0", "0", "0", "0", "0", "0">>

(***************************************************************************)
(* Block(index, transactions, previous_hash, timestamp, nonce) and its     *)
(* current_hash.                                                           *)
(***************************************************************************)
Block(index, transactions, previous_hash, timestamp, nonce, current_hash) ==
    [index |-> index, transactions |-> transactions,
     previous_hash |-> previous_hash, timestamp |-> timestamp,
     nonce |-> nonce, current_hash |-> current_hash]

NoBlock == Block(-1, <<>>, <<>>, 0, 0, <<>>)

genesis_transaction_one == Transaction(Sentinel, Addr1, 10, 0, 0, "")
genesis_transaction_two == Transaction(Sentinel, Addr2, 10, 0, 0, "")

_get_genesis_block ==
    Block(0, <<genesis_transaction_one, genesis_transaction_two>>,
          Zeros(66), 0, 27118821, GenesisHash)

(***************************************************************************)
(* Sums over sequences.                                                    *)
(***************************************************************************)
RECURSIVE SumSeq(_)
SumSeq(s) == IF s = <<>> THEN 0 ELSE Head(s) + SumSeq(Tail(s))

Fees(txs) == SumSeq([i \in 1..Len(txs) |-> txs[i].fee])

\* seq[:-1] and seq[:n] of Python
AllButLast(s) == IF s = <<>> THEN <<>> ELSE SubSeq(s, 1, Len(s) - 1)
Slice(s, n) == SubSeq(s, 1, IF n < Len(s) THEN n ELSE Len(s))

(***************************************************************************)
(* find_duplicate_transactions: the index field of the first block that    *)
(* holds the hash, else False.  Python's False equals 0, and every caller  *)
(* tests the result for truth, so both are the integer 0 here.             *)
(***************************************************************************)
RECURSIVE find_duplicate_transactions(_, _)
find_duplicate_transactions(bs, h) ==
    IF bs = <<>> THEN 0
    ELSE IF \E i \in 1..Len(Head(bs).transactions) :
                tx_hash(Head(bs).transactions[i]) = h
         THEN Head(bs).index
         ELSE find_duplicate_transactions(Tail(bs), h)

Truthy(v) == v # 0

(***************************************************************************)
(* get_balance, get_balance_pending.                                       *)
(***************************************************************************)
\* (mutant) the second if of the loop body is an elif
TxDelta_Elif(t, address) ==
    IF t.source = address THEN 0 - (t.amount + t.fee)
    ELSE IF t.destination = address THEN t.amount ELSE 0

TxDelta(t, address) ==
    (IF t.source = address THEN 0 - (t.amount + t.fee) ELSE 0)
    + (IF t.destination = address THEN t.amount ELSE 0)

TxsDelta(txs, address) ==
    SumSeq([i \in 1..Len(txs) |-> TxDelta(txs[i], address)])

get_balance(bs, address) ==
    SumSeq([i \in 1..Len(bs) |-> TxsDelta(bs[i].transactions, address)])

get_balance_pending(bs, pend, address) ==
    get_balance(bs, address) + TxsDelta(pend, address)

get_reward(index) == COINS_PER_BLOCK

calculate_hash_dificulty == MINIMUM_HASH_DIFFICULTY

(***************************************************************************)
(* The checks of validate_block.  Each gives the name of the exception it  *)
(* raises, or "ok".  IndexError is what Python raises for [-1] on an empty *)
(* list; it is no BlockchainException and validate_block does not catch    *)
(* it.                                                                     *)
(***************************************************************************)
_check_genesis_block(block) ==
    IF block # _get_genesis_block THEN "GenesisBlockMismatch" ELSE "ok"

CountZeros(s) == Cardinality({i \in 1..Len(s) : s[i] = "0"})

_check_hash_and_hash_pattern(block) ==
    LET hash_difficulty == calculate_hash_dificulty
    IN  IF CountZeros(Slice(block.current_hash, hash_difficulty)) < hash_difficulty
        THEN "InvalidHash" ELSE "ok"

_check_index_and_previous_hash(bs, block) ==
    IF bs = <<>> THEN "IndexError"
    ELSE LET latest_block == bs[Len(bs)]
         IN  IF latest_block.index # block.index - 1 THEN "ChainContinuityError"
             ELSE IF latest_block.current_hash # block.previous_hash
                  THEN "ChainContinuityError"
                  ELSE "ok"

\* (mutant) payers[source] is overwritten by each transaction of the source
\* instead of added to
Payers_Overwritten(txs, source) ==
    LET own == {i \in 1..Len(txs) : txs[i].source = source}
        last == CHOOSE i \in own : \A j \in own : j <= i
    IN  IF own = {} THEN 0 ELSE txs[last].amount + txs[last].fee

\* (mutant) each transaction is held against the balance on its own:
\* payers[source] is the largest single debit of the source
Payers_Largest(txs, source) ==
    LET own == {i \in 1..Len(txs) : txs[i].source = source}
        top == CHOOSE i \in own :
                   \A j \in own : txs[j].amount + txs[j].fee <= txs[i].amount + txs[i].fee
    IN  IF own = {} THEN 0 ELSE txs[top].amount + txs[top].fee

\* payers[source] once the loop over block.transactions[:-1] has ended
Payers(txs, source) ==
    SumSeq([i \in 1..Len(txs) |->
               IF txs[i].source = source THEN txs[i].amount + txs[i].fee ELSE 0])

\* (mutant) the fees are not added to the reward
RewardAmount_NoFees(block) == get_reward(block.index)

\* reward_amount once the loop over block.transactions[:-1] has ended
RewardAmount(block) == get_reward(block.index) + Fees(AllButLast(block.transactions))

\* (mutant) the two tests of the reward transaction are joined by "and"
_check_transactions_and_block_reward_And(bs, block) ==
    LET txs == AllButLast(block.transactions)
        reward_amount == RewardAmount(block)
    IN  IF \E i \in 1..Len(txs) :
               \/ Truthy(find_duplicate_transactions(bs, tx_hash(txs[i])))
               \/ ~verify(txs[i])
        THEN "InvalidTransactions"
        ELSE IF \E i \in 1..Len(txs) :
                   Payers(txs, txs[i].source) > get_balance(bs, txs[i].source)
        THEN "InvalidTransactions"
        ELSE IF block.transactions = <<>> THEN "IndexError"
        ELSE LET reward_transaction == block.transactions[Len(block.transactions)]
             IN  IF /\ reward_transaction.amount # reward_amount
                    /\ reward_transaction.source # Sentinel
                 THEN "InvalidTransactions"
                 ELSE "ok"

_check_transactions_and_block_reward(bs, block) ==
    LET txs == AllButLast(block.transactions)
        reward_amount == RewardAmount(block)
    IN  IF \E i \in 1..Len(txs) :
               \/ Truthy(find_duplicate_transactions(bs, tx_hash(txs[i])))
               \/ ~verify(txs[i])
        THEN "InvalidTransactions"
        ELSE IF \E i \in 1..Len(txs) :
                   Payers(txs, txs[i].source) > get_balance(bs, txs[i].source)
        THEN "InvalidTransactions"
        ELSE IF block.transactions = <<>> THEN "IndexError"
        ELSE LET reward_transaction == block.transactions[Len(block.transactions)]
             IN  IF \/ reward_transaction.amount # reward_amount
                    \/ reward_transaction.source # Sentinel
                 THEN "InvalidTransactions"
                 ELSE "ok"

\* (mutant) a block of index 0 that passes the genesis check goes on to the
\* checks of the other blocks
validate_block_GenesisChained(bs, block) ==
    IF block.index = 0 /\ _check_genesis_block(block) # "ok"
    THEN _check_genesis_block(block)
    ELSE IF _check_hash_and_hash_pattern(block) # "ok"
         THEN _check_hash_and_hash_pattern(block)
    ELSE IF _check_index_and_previous_hash(bs, block) # "ok"
         THEN _check_index_and_previous_hash(bs, block)
    ELSE _check_transactions_and_block_reward(bs, block)

\* (mutant) the place in the chain is checked before the hash
validate_block_ContinuityFirst(bs, block) ==
    IF block.index = 0 THEN _check_genesis_block(block)
    ELSE IF _check_index_and_previous_hash(bs, block) # "ok"
         THEN _check_index_and_previous_hash(bs, block)
    ELSE IF _check_hash_and_hash_pattern(block) # "ok"
         THEN _check_hash_and_hash_pattern(block)
    ELSE _check_transactions_and_block_reward(bs, block)

\* the outcome of validate_block: "ok" (True), the BlockchainException it
\* caught (False), or the exception that escapes it
validate_block(bs, block) ==
    IF block.index = 0 THEN _check_genesis_block(block)
    ELSE IF _check_hash_and_hash_pattern(block) # "ok"
         THEN _check_hash_and_hash_pattern(block)
    ELSE IF _check_index_and_previous_hash(bs, block) # "ok"
         THEN _check_index_and_previous_hash(bs, block)
    ELSE _check_transactions_and_block_reward(bs, block)

BlockchainExceptions ==
    {"GenesisBlockMismatch", "InvalidHash", "ChainContinuityError",
     "InvalidTransactions"}

(***************************************************************************)
(* validate_transaction.                                                   *)
(***************************************************************************)
InPending(pend, transaction) ==
    \E i \in 1..Len(pend) : TransactionEq(pend[i], transaction)

\* (mutant) the funds check counts the debits of the pending pool
InsufficientFunds_Pending(bs, pend, transaction) ==
    transaction.amount + transaction.fee
        > get_balance_pending(bs, pend, transaction.source)

InsufficientFunds(bs, pend, transaction) ==
    transaction.amount + transaction.fee > get_balance(bs, transaction.source)

validate_transaction(bs, pend, transaction) ==
    IF InPending(pend, transaction) THEN FALSE
    ELSE IF Truthy(find_duplicate_transactions(bs, tx_hash(transaction))) THEN FALSE
    ELSE IF ~verify(transaction) THEN FALSE
    ELSE IF InsufficientFunds(bs, pend, transaction) THEN FALSE
    ELSE TRUE

(***************************************************************************)
(* get_minable_block.                                                      *)
(***************************************************************************)
\* (mutant) the loop stops one transaction late
CapReached_OneLate(n) == n > MAX_TRANSACTIONS_PER_BLOCK

CapReached(n) == n >= MAX_TRANSACTIONS_PER_BLOCK

RECURSIVE SelectTransactions(_, _, _, _)
SelectTransactions(bs, pend, i, transactions) ==
    IF i > Len(pend) THEN transactions
    ELSE LET pending_transaction == pend[i]
         IN  IF pending_transaction = NoneTx THEN transactions
             ELSE IF \E j \in 1..Len(transactions) :
                        tx_hash(transactions[j]) = tx_hash(pending_transaction)
                  THEN SelectTransactions(bs, pend, i + 1, transactions)
             ELSE IF Truthy(find_duplicate_transactions(bs, tx_hash(pending_transaction)))
                  THEN SelectTransactions(bs, pend, i + 1, transactions)
             ELSE IF ~verify(pending_transaction)
                  THEN SelectTransactions(bs, pend, i + 1, transactions)
             ELSE IF CapReached(Len(transactions) + 1)
                  THEN Append(transactions, pending_transaction)
             ELSE SelectTransactions(bs, pend, i + 1,
                                     Append(transactions, pending_transaction))

\* defined on a non-empty chain; on an empty one get_latest_block raises
get_minable_block(bs, pend, reward_address, now) ==
    LET latest_block == bs[Len(bs)]
        new_block_id == latest_block.index + 1
        previous_hash == latest_block.current_hash
        transactions == SelectTransactions(bs, pend, 1, <<>>)
        fees == Fees(transactions)
        reward_transaction ==
            Transaction(Sentinel, reward_address, get_reward(new_block_id) + fees,
                        0, now, "0")
    IN  Block(new_block_id, Append(transactions, reward_transaction),
              previous_hash, now, 0, UnminedHash)

(***************************************************************************)
(* remove_pending_transaction: the pool without its first entry of that    *)
(* hash.                                                                   *)
(***************************************************************************)
HasHash(pend, h) == \E i \in 1..Len(pend) : tx_hash(pend[i]) = h

FirstWithHash(pend, h) ==
    CHOOSE i \in 1..Len(pend) :
        /\ tx_hash(pend[i]) = h
        /\ \A j \in 1..(i - 1) : tx_hash(pend[j]) # h

Pop(s, i) == SubSeq(s, 1, i - 1) \o SubSeq(s, i + 1, Len(s))

\* what the call returns, and the pool it leaves
remove_pending_transaction(pend, transaction_hash) ==
    IF HasHash(pend, transaction_hash)
    THEN [value |-> TRUE,
          pending_transactions |-> Pop(pend, FirstWithHash(pend, transaction_hash))]
    ELSE [value |-> FALSE, pending_transactions |-> pend]

(***************************************************************************)
(* add_block on a chain bs: the chain afterwards, and what the call gave   *)
(* ("True", "False", or "raised" when an exception escapes it).            *)
(***************************************************************************)
\* (mutant) the block is appended without being validated
add_block_Unchecked(bs, block) == Append(bs, block)

add_block(bs, block) ==
    IF validate_block(bs, block) = "ok" THEN Append(bs, block) ELSE bs

Returned(outcome) ==
    IF outcome = "ok" THEN "True"
    ELSE IF outcome \in BlockchainExceptions THEN "False"
    ELSE "raised"

(***************************************************************************)
(* __init__(blocks): with no blocks the genesis block is added, else each  *)
(* supplied block in turn.  An exception that escapes add_block escapes    *)
(* the constructor, and no chain exists.                                   *)
(***************************************************************************)
RECURSIVE AddAll(_, _)
AddAll(bs, supplied) ==
    IF supplied = <<>> THEN [raised |-> FALSE, blocks |-> bs]
    ELSE IF Returned(validate_block(bs, Head(supplied))) = "raised"
         THEN [raised |-> TRUE, blocks |-> bs]
         ELSE AddAll(add_block(bs, Head(supplied)), Tail(supplied))

Constructor(supplied) ==
    IF supplied = <<>> THEN AddAll(<<>>, <<_get_genesis_block>>)
    ELSE AddAll(<<>>, supplied)

(***************************************************************************)
(* The inputs the operations are called with.                              *)
(***************************************************************************)
\* transactions of the funded addresses, at clock value 1
TxSpend == Transaction(Addr1, Addr2, 5, 1, 1, SigA)
TxSpendResigned == Transaction(Addr1, Addr2, 5, 1, 1, SigB)
TxSpendForged == Transaction(Addr1, Addr2, 5, 1, 1, "bad")
TxAll == Transaction(Addr1, Addr3, 10, 0, 1, SigA)
TxOver == Transaction(Addr1, Addr2, 10, 1, 1, SigA)
TxBack == Transaction(Addr2, Addr1, 5, 0, 1, SigA)

UserTransactions ==
    {TxSpend, TxSpendResigned, TxSpendForged, TxAll, TxOver,
     genesis_transaction_one}

RewardTx(amount) == Transaction(Sentinel, Addr3, amount, 0, 1, "0")

\* the transactions of a submitted block: all but the last, and the last
BodyLists ==
    {<<>>, <<TxSpend>>, <<TxSpendForged>>, <<TxOver>>,
     <<TxSpend, TxAll>>, <<TxBack, TxBack>>, <<TxBack, TxSpend, TxSpendResigned>>,
     <<genesis_transaction_one>>}

LastTransactions ==
    {RewardTx(COINS_PER_BLOCK), RewardTx(COINS_PER_BLOCK + 1)}

TransactionLists ==
    {<<>>, <<TxAll>>, <<genesis_transaction_one>>,
     <<TxBack, TxSpend, TxSpendResigned, RewardTx(COINS_PER_BLOCK + 2)>>}
    \cup {Append(body, last) : body \in BodyLists, last \in LastTransactions}

GenesisVariants ==
    {_get_genesis_block,
     [_get_genesis_block EXCEPT !.nonce = 0],
     [_get_genesis_block EXCEPT !.current_hash = HashBad],
     [_get_genesis_block EXCEPT !.transactions = <<genesis_transaction_one>>]}

SubmittedBlocks ==
    GenesisVariants
    \cup {Block(index, transactions, previous_hash, 1, 1, HashA) :
            index \in 1..(MaxBlocks - 1), transactions \in TransactionLists,
            previous_hash \in {GenesisHash, HashA}}
    \cup {Block(index, transactions, previous_hash, 1, 1, HashBad) :
            index \in 1..(MaxBlocks - 1),
            transactions \in {<<RewardTx(COINS_PER_BLOCK)>>, <<TxOver, TxAll>>},
            previous_hash \in {GenesisHash, HashA}}

\* the lists of blocks a chain is constructed from
ConstructorBlocks ==
    {_get_genesis_block,
     [_get_genesis_block EXCEPT !.nonce = 0],
     Block(1, <<RewardTx(COINS_PER_BLOCK)>>, GenesisHash, 1, 1, HashA),
     Block(1, <<RewardTx(COINS_PER_BLOCK)>>, GenesisHash, 1, 1, HashBad)}

ConstructorArgs ==
    {<<>>} \cup {<<b>> : b \in ConstructorBlocks}
           \cup {<<b, c>> : b \in ConstructorBlocks, c \in ConstructorBlocks}

TransactionHashes == {tx_hash(t) : t \in UserTransactions}

(***************************************************************************)
(* The state machine.  ret is what the last call gave.  candidate is the   *)
(* block get_minable_block returned last.                                  *)
(***************************************************************************)
Result(op, value, error) == [op |-> op, value |-> value, error |-> error]

Init ==
    \E supplied \in ConstructorArgs :
        /\ ~Constructor(supplied).raised
        /\ blocks = Constructor(supplied).blocks
        /\ pending_transactions = <<>>
        /\ candidate = NoBlock
        /\ ret = Result("__init__", "None", "None")

AddBlock(block) ==
    /\ Len(blocks) < MaxBlocks
    /\ blocks' = add_block(blocks, block)
    /\ ret' = Result("add_block", Returned(validate_block(blocks, block)),
                     validate_block(blocks, block))
    /\ UNCHANGED <<pending_transactions, candidate>>

PushPendingTransaction(transaction) ==
    /\ pending_transactions' =
           IF validate_transaction(blocks, pending_transactions, transaction)
           THEN Append(pending_transactions, transaction)
           ELSE pending_transactions
    /\ ret' = Result("push_pending_transaction",
                     IF validate_transaction(blocks, pending_transactions, transaction)
                     THEN "True" ELSE "False", "None")
    /\ UNCHANGED <<blocks, candidate>>

RemovePendingTransaction(transaction_hash) ==
    /\ pending_transactions' =
           remove_pending_transaction(pending_transactions, transaction_hash)
               .pending_transactions
    /\ ret' = Result("remove_pending_transaction",
                     IF remove_pending_transaction(pending_transactions,
                                                   transaction_hash).value
                     THEN "True" ELSE "False", "None")
    /\ UNCHANGED <<blocks, candidate>>

\* (mutant) the transactions put in the block are taken out of the pool
GetMinableBlock_Draining(reward_address, now) ==
    /\ blocks # <<>>
    /\ candidate' = get_minable_block(blocks, pending_transactions, reward_address, now)
    /\ ret' = Result("get_minable_block", "Block", "None")
    /\ pending_transactions' =
           SubSeq(pending_transactions, Len(candidate'.transactions),
                  Len(pending_transactions))
    /\ UNCHANGED blocks

GetMinableBlock(reward_address, now) ==
    /\ candidate' =
           IF blocks = <<>> THEN candidate
           ELSE get_minable_block(blocks, pending_transactions, reward_address, now)
    /\ ret' = IF blocks = <<>>
              THEN Result("get_minable_block", "raised", "IndexError")
              ELSE Result("get_minable_block", "Block", "None")
    /\ UNCHANGED <<blocks, pending_transactions>>

\* the miner's nonce and the hash that goes with it
Mined(block, current_hash) ==
    [block EXCEPT !.nonce = 1, !.current_hash = current_hash]

\* One round of the miner: get_minable_block, the proof-of-work search on the
\* block it returned, and add_block of the result, nothing else in between.
MineCycle(reward_address, now, current_hash) ==
    /\ Len(blocks) < MaxBlocks
    /\ IF blocks = <<>>
       THEN /\ ret' = Result("mine_cycle", "raised", "IndexError")
            /\ UNCHANGED blocks
       ELSE LET template == get_minable_block(blocks, pending_transactions,
                                              reward_address, now)
                mined == Mined(template, current_hash)
            IN  /\ blocks' = add_block(blocks, mined)
                /\ ret' = Result("mine_cycle", Returned(validate_block(blocks, mined)),
                                 validate_block(blocks, mined))
    /\ UNCHANGED <<pending_transactions, candidate>>

Next ==
    \/ \E block \in SubmittedBlocks : AddBlock(block)
    \/ \E transaction \in UserTransactions :
           Len(pending_transactions) < MaxPending /\ PushPendingTransaction(transaction)
    \/ \E h \in TransactionHashes : RemovePendingTransaction(h)
    \/ MineCycle(Addr3, 1, HashA)

Spec == Init /\ [][Next]_vars

(***************************************************************************)
(* The template specification: a stream of transactions is admitted in     *)
(* order of arrival, up to more than MAX_TRANSACTIONS_PER_BLOCK of them,    *)
(* and get_minable_block is called on the pool at any moment.              *)
(***************************************************************************)
\* the k-th transaction to arrive: the second is the first signed again
Stream(k) ==
    IF k <= 2 THEN Transaction(Addr2, Addr3, 1, 1, 2, IF k = 1 THEN SigA ELSE SigB)
    ELSE Transaction(Addr2, Addr3, 0, IF k % 25 = 0 THEN 1 ELSE 0, k, SigA)

TemplateConstructorArgs ==
    {<<>>,
     <<_get_genesis_block, _get_genesis_block>>,
     <<_get_genesis_block,
       Block(1, <<RewardTx(COINS_PER_BLOCK)>>, GenesisHash, 1, 1, HashA),
       Block(2, <<TxSpend, RewardTx(COINS_PER_BLOCK + 1)>>, HashA, 1, 1, HashA)>>}

RewardAddresses == {Addr1, Addr3}

InitTemplate ==
    \E supplied \in TemplateConstructorArgs :
        /\ ~Constructor(supplied).raised
        /\ blocks = Constructor(supplied).blocks
        /\ pending_transactions = <<>>
        /\ candidate = NoBlock
        /\ ret = Result("__init__", "None", "None")

NextTemplate ==
    \/ \E k \in 1..MaxStream :
           k = Len(pending_transactions) + 1 /\ PushPendingTransaction(Stream(k))
    \/ \E reward_address \in RewardAddresses : GetMinableBlock(reward_address, 3)

SpecTemplate == InitTemplate /\ [][NextTemplate]_vars

(***************************************************************************)
(* The ledger specification: blocks and pending transactions that move     *)
(* coins between the funded addresses, one of them from an address to      *)
(* itself, for the balances to be read after each step.                    *)
(***************************************************************************)
TxSelf == Transaction(Addr2, Addr2, 3, 1, 1, SigA)

LedgerTransactions == {TxSelf, TxBack, TxSpend, TxOver}

LedgerBodies == {<<>>, <<TxSelf>>, <<TxBack>>, <<TxSpend, TxSelf>>}

LedgerBlocks ==
    {Block(index, Append(body, RewardTx(COINS_PER_BLOCK + Fees(body))),
           previous_hash, 1, 1, HashA) :
        index \in 1..(MaxBlocks - 1), body \in LedgerBodies,
        previous_hash \in {GenesisHash, HashA}}

NextLedger ==
    \/ \E block \in LedgerBlocks : AddBlock(block)
    \/ \E transaction \in LedgerTransactions :
           Len(pending_transactions) < MaxPending /\ PushPendingTransaction(transaction)
    \/ \E transaction \in LedgerTransactions :
           RemovePendingTransaction(tx_hash(transaction))

SpecLedger == Init /\ [][NextLedger]_vars

(***************************************************************************)
(* The query specification: a few blocks and transactions are added, and   *)
(* between these steps come the calls that only read the chain:            *)
(* validate_block, validate_transaction, get_balance, get_balance_pending  *)
(* and get_minable_block.  ret is what the call returned; a balance is     *)
(* written as a string, as the other values of ret are.                    *)
(***************************************************************************)
ValidateBlock(block) ==
    /\ ret' = Result("validate_block", Returned(validate_block(blocks, block)),
                     validate_block(blocks, block))
    /\ UNCHANGED <<blocks, pending_transactions, candidate>>

ValidateTransaction(transaction) ==
    /\ ret' = Result("validate_transaction",
                     IF validate_transaction(blocks, pending_transactions, transaction)
                     THEN "True" ELSE "False", "None")
    /\ UNCHANGED <<blocks, pending_transactions, candidate>>

GetBalance(address) ==
    /\ ret' = Result("get_balance", ToString(get_balance(blocks, address)), "None")
    /\ UNCHANGED <<blocks, pending_transactions, candidate>>

GetBalancePending(address) ==
    /\ ret' = Result("get_balance_pending",
                     ToString(get_balance_pending(blocks, pending_transactions,
                                                  address)), "None")
    /\ UNCHANGED <<blocks, pending_transactions, candidate>>

QueriedBlocks ==
    {_get_genesis_block, [_get_genesis_block EXCEPT !.nonce = 0],
     Block(1, <<TxSelf, RewardTx(COINS_PER_BLOCK + 1)>>, GenesisHash, 1, 1, HashA),
     Block(1, <<TxSelf, RewardTx(COINS_PER_BLOCK)>>, GenesisHash, 1, 1, HashA),
     Block(1, <<>>, GenesisHash, 1, 1, HashA),
     Block(2, <<RewardTx(COINS_PER_BLOCK)>>, HashA, 1, 1, HashBad)}

QueriedTransactions == {TxSelf, TxSpend, TxOver}

Queries == {"validate_block", "validate_transaction", "get_balance",
            "get_balance_pending", "get_minable_block"}

NextQueries ==
    \/ \E block \in QueriedBlocks : AddBlock(block)
    \/ \E transaction \in QueriedTransactions :
           Len(pending_transactions) < MaxPending /\ PushPendingTransaction(transaction)
    \/ \E block \in QueriedBlocks : ValidateBlock(block)
    \/ \E transaction \in QueriedTransactions : ValidateTransaction(transaction)
    \/ \E address \in Addresses : GetBalance(address)
    \/ \E address \in Addresses : GetBalancePending(address)
    \/ GetMinableBlock(Addr3, 1)

SpecQueries == Init /\ [][NextQueries]_vars

(***************************************************************************)
(* The pool specification: get_minable_block on any pool, as the owner of  *)
(* the chain may have left the list pending_transactions: with None        *)
(* entries, which line 78 tests for, with entries of one identity hash,    *)
(* with entries whose signature does not verify and with entries that a    *)
(* confirmed block holds.  The methods of BlockChain put no None in the    *)
(* list; it is an attribute any caller can write.                          *)
(***************************************************************************)
PoolEntries == {NoneTx, TxSpend, TxSpendResigned, TxSpendForged, TxBack}

Pools == UNION {[1..n -> PoolEntries] : n \in 0..MaxPool}

PoolConstructorArgs ==
    {<<>>,
     <<_get_genesis_block,
       Block(1, <<TxSpend, RewardTx(COINS_PER_BLOCK + 1)>>, GenesisHash, 1, 1, HashA)>>}

InitPools ==
    \E supplied \in PoolConstructorArgs, pool \in Pools :
        /\ ~Constructor(supplied).raised
        /\ blocks = Constructor(supplied).blocks
        /\ pending_transactions = pool
        /\ candidate = NoBlock
        /\ ret = Result("__init__", "None", "None")

NextPools == \E reward_address \in RewardAddresses : GetMinableBlock(reward_address, 3)

SpecPools == InitPools /\ [][NextPools]_vars

(***************************************************************************)
(* Properties.                                                             *)
(***************************************************************************)
\* the identity hash is that of a transaction of a confirmed block
ConfirmedHash(h) ==
    \E i \in 1..Len(blocks) : \E j \in 1..Len(blocks[i].transactions) :
        tx_hash(blocks[i].transactions[j]) = h

\* the last transaction of a block is its reward: from "0", of the base reward
\* plus the fees of the others
RewardCorrect(block) ==
    /\ block.transactions # <<>>
    /\ block.transactions[Len(block.transactions)].source = Sentinel
    /\ block.transactions[Len(block.transactions)].amount
           = COINS_PER_BLOCK + Fees(AllButLast(block.transactions))

\* C1: blocks is never empty and its first block is the pinned genesis block.
C1_GenesisFirst == blocks # <<>> /\ blocks[1] = _get_genesis_block

\* C2: every block after the first has its position as index and links to the
\* hash of the block before it.
C2_IndexAndLink ==
    \A i \in 2..Len(blocks) :
        /\ blocks[i].index = i - 1
        /\ blocks[i].previous_hash = blocks[i - 1].current_hash

\* C3: no transaction identity hash occurs twice among the transactions of the
\* confirmed blocks.
C3_NoRepeatedHash ==
    \A i1 \in 1..Len(blocks), i2 \in 1..Len(blocks) :
        \A j1 \in 1..Len(blocks[i1].transactions),
           j2 \in 1..Len(blocks[i2].transactions) :
            tx_hash(blocks[i1].transactions[j1]) = tx_hash(blocks[i2].transactions[j2])
                => (i1 = i2 /\ j1 = j2)

\* C4, as claimed: once a block is confirmed no address, the sentinel "0"
\* included, has a negative balance.
C4_NoNegativeBalance ==
    blocks # <<>> => \A a \in Addresses : get_balance(blocks, a) >= 0

\* C4, amended: no address other than the sentinel "0" ever has a negative
\* balance.
C4_NoNegativeBalanceButSentinel ==
    \A a \in Addresses \ {Sentinel} : get_balance(blocks, a) >= 0

\* a block spending the whole balance of an address was accepted
C4_Witness ==
    /\ ret.op = "add_block" /\ ret.value = "True"
    /\ Len(blocks[Len(blocks)].transactions) = 3
    /\ get_balance(blocks, Addr2) = 0

\* C5: add_block accepts a block of index > 0 only if its last transaction is
\* from "0" and of amount base reward + fees of the others, so every confirmed
\* block of index > 0 is such; a block whose reward amount differs is never
\* accepted, and InvalidTransactions is what rejects it once its hash and its
\* place in the chain are right.
C5_RewardEnforced ==
    /\ \A i \in 1..Len(blocks) : blocks[i].index > 0 => RewardCorrect(blocks[i])
    /\ \A block \in SubmittedBlocks :
           block.index > 0 =>
               /\ add_block(blocks, block) # blocks => RewardCorrect(block)
               /\ (/\ block.transactions # <<>>
                   /\ ~RewardCorrect(block)
                   /\ _check_hash_and_hash_pattern(block) = "ok"
                   /\ _check_index_and_previous_hash(blocks, block) = "ok")
                      => /\ validate_block(blocks, block) = "InvalidTransactions"
                         /\ add_block(blocks, block) = blocks

\* a block whose reward carries a fee was accepted
C5_Witness ==
    /\ ret.op = "add_block" /\ ret.value = "True"
    /\ blocks[Len(blocks)].index > 0
    /\ Fees(AllButLast(blocks[Len(blocks)].transactions)) > 0

\* C6: pending_transactions holds no two transactions of the same identity
\* hash and none whose identity hash is confirmed in blocks.
C6_PendingFresh ==
    /\ \A i \in 1..Len(pending_transactions), j \in 1..Len(pending_transactions) :
           tx_hash(pending_transactions[i]) = tx_hash(pending_transactions[j]) => i = j
    /\ \A i \in 1..Len(pending_transactions) :
           ~ConfirmedHash(tx_hash(pending_transactions[i]))

C8_AdmitOnConfirmedBalance ==
    [][\A transaction \in UserTransactions :
          (/\ ret'.op = "push_pending_transaction"
           /\ PushPendingTransaction(transaction)
           /\ ~HasHash(pending_transactions, tx_hash(transaction))
           /\ ~ConfirmedHash(tx_hash(transaction))
           /\ verify(transaction))
             => /\ ret'.value = "True"
                   <=> transaction.amount + transaction.fee
                          <= get_balance(blocks, transaction.source)
                /\ ret'.value = "True"
                      => pending_transactions' = Append(pending_transactions, transaction)
                /\ ret'.value = "False"
                      => pending_transactions' = pending_transactions]_vars

\* the pending transactions of one source debit more than its confirmed balance
C8_Witness ==
    /\ ret.op = "push_pending_transaction" /\ ret.value = "True"
    /\ get_balance(blocks, Addr1) >= 0
    /\ get_balance_pending(blocks, pending_transactions, Addr1) < 0

\* C9: the block get_minable_block returns, given a hash that satisfies the
\* proof of work and handed to add_block with nothing in between, is accepted.
C9_TemplateAccepted ==
    (ret.op = "mine_cycle" /\ blocks # <<>>) => ret.value = "True"

\* what C10 says of a block returned for reward_address in the current state
TemplateCorrect(block, reward_address) ==
    LET body == AllButLast(block.transactions)
        reward == block.transactions[Len(block.transactions)]
    IN  /\ block.index = blocks[Len(blocks)].index + 1
        /\ block.previous_hash = blocks[Len(blocks)].current_hash
        /\ block.transactions # <<>>
        /\ Len(body) <= 50
        /\ \A i \in 1..Len(body) :
               InPending(pending_transactions, body[i]) /\ body[i].source # Sentinel
        /\ reward.source = Sentinel
        /\ reward.fee = 0
        /\ reward.destination = reward_address
        /\ reward.amount = COINS_PER_BLOCK + Fees(body)

\* C10: the block get_minable_block returns follows the latest block, holds at
\* most 50 transactions of the pool, none of them from "0", and then one reward
\* transaction: from "0" to the reward address, of fee 0 and of amount base
\* reward + fees of the ones before it.
C10_TemplateShape ==
    [][\A reward_address \in RewardAddresses :
          (/\ ret'.op = "get_minable_block"
           /\ GetMinableBlock(reward_address, 3)
           /\ blocks # <<>>)
             => TemplateCorrect(candidate', reward_address)]_vars

\* a template was cut at the cap: more than 50 eligible transactions in the pool
C10_Witness ==
    /\ ret.op = "get_minable_block" /\ ret.value = "Block"
    /\ Len(pending_transactions) > MAX_TRANSACTIONS_PER_BLOCK + 1
    /\ Len(candidate.transactions) = MAX_TRANSACTIONS_PER_BLOCK + 1
    /\ Fees(candidate.transactions) > 0

\* s without its i-th entry, the other entries in their order
Without(s, i) == [k \in 1..(Len(s) - 1) |-> IF k < i THEN s[k] ELSE s[k + 1]]

C12_AppendOnly ==
    [][/\ \/ blocks' = blocks
          \/ /\ Len(blocks') = Len(blocks) + 1
             /\ SubSeq(blocks', 1, Len(blocks)) = blocks
             /\ validate_block(blocks, blocks'[Len(blocks')]) = "ok"
       /\ (ret'.op = "add_block" /\ ret'.value = "False")
              => blocks' = blocks /\ pending_transactions' = pending_transactions
       /\ (ret'.op = "add_block" /\ ret'.value = "True")
              => /\ Len(blocks') = Len(blocks) + 1
                 /\ pending_transactions' = pending_transactions
      ]_vars

\* add_block accepted a block that holds a transaction of the pool, and the
\* transaction is still in the pool
C12_Witness ==
    /\ ret.op = "add_block" /\ ret.value = "True"
    /\ \E i \in 1..Len(pending_transactions) :
           \E j \in 1..Len(blocks[Len(blocks)].transactions) :
               blocks[Len(blocks)].transactions[j] = pending_transactions[i]

\* C13: add_block and push_pending_transaction return True or False on every
\* reachable chain, the empty chain of a constructor whose blocks were all
\* rejected included, and for every block or transaction; no exception
\* escapes them.
C13_Total ==
    ret.op \in {"add_block", "push_pending_transaction"}
        => ret.value \in {"True", "False"}

\* C14: on any chain, a block of index 0 is accepted by validate_block exactly
\* when it equals the pinned genesis block; any other block of index 0 is
\* rejected with GenesisBlockMismatch, whatever its hash, its previous_hash
\* and its transactions are, so add_block appends the one and returns False
\* for the others.
C14_GenesisCheckOnly ==
    /\ \A block \in SubmittedBlocks :
           block.index = 0 =>
               /\ validate_block(blocks, block) = "ok" <=> block = _get_genesis_block
               /\ block # _get_genesis_block
                      => /\ validate_block(blocks, block) = "GenesisBlockMismatch"
                         /\ add_block(blocks, block) = blocks
               /\ block = _get_genesis_block
                      => add_block(blocks, block) = Append(blocks, block)
    /\ (ret.op = "add_block" /\ ret.error = "GenesisBlockMismatch")
           => ret.value = "False"

\* the genesis block was accepted on a chain that already held blocks
C14_Witness ==
    /\ ret.op = "add_block" /\ ret.value = "True"
    /\ Len(blocks) >= 2
    /\ blocks[Len(blocks)] = _get_genesis_block

\* every transaction of the confirmed blocks, in chain order
RECURSIVE Confirmed(_)
Confirmed(bs) == IF bs = <<>> THEN <<>> ELSE Head(bs).transactions \o Confirmed(Tail(bs))

Credits(txs, a) ==
    SumSeq([i \in 1..Len(txs) |-> IF txs[i].destination = a THEN txs[i].amount ELSE 0])

Debits(txs, a) ==
    SumSeq([i \in 1..Len(txs) |->
               IF txs[i].source = a THEN txs[i].amount + txs[i].fee ELSE 0])

\* C15: get_balance(a) is the sum of amount over the confirmed transactions
\* with destination a minus the sum of amount + fee over those with source a;
\* get_balance_pending(a) is get_balance(a) changed by the same rule over
\* pending_transactions; on the chain of the genesis block alone the balance
\* is 10 for each of its two addresses and 0 for an address it never mentions.
C15_BalanceFormula ==
    /\ \A a \in Addresses :
           /\ get_balance(blocks, a)
                  = Credits(Confirmed(blocks), a) - Debits(Confirmed(blocks), a)
           /\ get_balance_pending(blocks, pending_transactions, a)
                  = get_balance(blocks, a) + Credits(pending_transactions, a)
                        - Debits(pending_transactions, a)
    /\ blocks = <<_get_genesis_block>>
           => /\ get_balance(blocks, Addr1) = 10
              /\ get_balance(blocks, Addr2) = 10
              /\ get_balance(blocks, Addr3) = 0

\* a transaction from an address to itself is confirmed, another such is
\* pending: each has cost the address its fee
C15_Witness ==
    /\ \E i \in 1..Len(Confirmed(blocks)) :
           Confirmed(blocks)[i].source = Confirmed(blocks)[i].destination
    /\ pending_transactions = <<TxSelf>>
    /\ get_balance(blocks, Addr2) = 9
    /\ get_balance_pending(blocks, pending_transactions, Addr2) = 8

\* C16: validate_block, validate_transaction, get_balance,
\* get_balance_pending and get_minable_block leave blocks and
\* pending_transactions as they were, whatever they return or raise.
C16_QueriesPure ==
    [][ret'.op \in Queries
          => blocks' = blocks /\ pending_transactions' = pending_transactions]_vars

\* get_minable_block has put the transactions of the pool in a block and the
\* pool still holds them
C16_Witness ==
    /\ ret.op = "get_minable_block" /\ ret.value = "Block"
    /\ Len(pending_transactions) = MaxPending
    /\ candidate.transactions
           = Append(pending_transactions,
                    RewardTx(COINS_PER_BLOCK + Fees(pending_transactions)))

\* the first MINIMUM_HASH_DIFFICULTY characters of the hash are zeros
LeadingZeros(h) ==
    /\ Len(h) >= MINIMUM_HASH_DIFFICULTY
    /\ \A i \in 1..MINIMUM_HASH_DIFFICULTY : h[i] = "0"

\* the block does not follow the latest block of a non-empty chain
BreaksContinuity(block) ==
    \/ block.index # blocks[Len(blocks)].index + 1
    \/ block.previous_hash # blocks[Len(blocks)].current_hash

\* C17: a block of index > 0 whose hash lacks the leading zeros is rejected
\* with InvalidHash, whatever its place in the chain and its transactions
\* are; one whose hash has them and that does not follow the latest block is
\* rejected with ChainContinuityError, whatever its transactions are; only a
\* block that passes both is rejected with InvalidTransactions.
C17_CheckOrder ==
    /\ \A block \in SubmittedBlocks :
           block.index > 0 =>
               LET outcome == validate_block(blocks, block)
               IN  /\ ~LeadingZeros(block.current_hash)
                          => outcome = "InvalidHash"
                   /\ (/\ LeadingZeros(block.current_hash)
                       /\ blocks # <<>>
                       /\ BreaksContinuity(block))
                          => outcome = "ChainContinuityError"
                   /\ outcome = "InvalidTransactions"
                          => /\ LeadingZeros(block.current_hash)
                             /\ ~BreaksContinuity(block)
                   /\ outcome \in {"InvalidHash", "ChainContinuityError"}
                          => Returned(outcome) = "False"
    /\ (ret.op = "add_block" /\ ret.error \in {"InvalidHash", "ChainContinuityError"})
           => ret.value = "False"

\* add_block has reported ChainContinuityError on a chain where some block
\* breaks the continuity rule and the transaction rules at once, and some
\* block breaks all three
C17_Witness ==
    /\ ret.op = "add_block" /\ ret.error = "ChainContinuityError"
    /\ blocks # <<>>
    /\ \E block \in SubmittedBlocks :
           /\ block.index > 0
           /\ LeadingZeros(block.current_hash)
           /\ BreaksContinuity(block)
           /\ _check_transactions_and_block_reward(blocks, block) = "InvalidTransactions"
    /\ \E block \in SubmittedBlocks :
           /\ block.index > 0
           /\ ~LeadingZeros(block.current_hash)
           /\ BreaksContinuity(block)
           /\ _check_transactions_and_block_reward(blocks, block) = "InvalidTransactions"

\* the sources of a list of transactions
Sources(txs) == {txs[i].source : i \in 1..Len(txs)}

\* the funds rule is the only one the block breaks on the current chain: its
\* hash, its place, its reward, the signatures and the freshness of its
\* transactions are right, and no transaction alone exceeds the balance of
\* its source
OnlyOverspends(block) ==
    LET body == AllButLast(block.transactions)
    IN  /\ block.index > 0
        /\ LeadingZeros(block.current_hash)
        /\ ~BreaksContinuity(block)
        /\ RewardCorrect(block)
        /\ \A i \in 1..Len(body) :
               /\ verify(body[i])
               /\ ~ConfirmedHash(tx_hash(body[i]))
               /\ body[i].amount + body[i].fee <= get_balance(blocks, body[i].source)
        /\ \E a \in Sources(body) : Debits(body, a) > get_balance(blocks, a)

\* C18: a block of index > 0 whose hash and place in the chain are right is
\* rejected with InvalidTransactions whenever all but the last of its
\* transactions debit some source, amount + fee summed over the block, more
\* than the confirmed balance of that source before the block: also when no
\* transaction alone does, and when the block credits that source.
C18_CumulativeFunds ==
    \A block \in SubmittedBlocks :
        (/\ block.index > 0
         /\ LeadingZeros(block.current_hash)
         /\ blocks # <<>>
         /\ ~BreaksContinuity(block)
         /\ \E a \in Sources(AllButLast(block.transactions)) :
                Debits(AllButLast(block.transactions), a) > get_balance(blocks, a))
            => /\ validate_block(blocks, block) = "InvalidTransactions"
               /\ add_block(blocks, block) = blocks

\* add_block has reported InvalidTransactions on a chain where a block breaks
\* the funds rule alone, by the sum of two debits of a source that the same
\* block credits with enough to cover them
C18_Witness ==
    /\ ret.op = "add_block" /\ ret.error = "InvalidTransactions"
    /\ blocks # <<>>
    /\ \E block \in SubmittedBlocks :
           /\ OnlyOverspends(block)
           /\ \E a \in Sources(AllButLast(block.transactions)) :
                  LET body == AllButLast(block.transactions)
                  IN  /\ Debits(body, a) > get_balance(blocks, a)
                      /\ Credits(body, a) > 0
                      /\ Debits(body, a) <= get_balance(blocks, a) + Credits(body, a)

\* the selection C19 describes, from entry i of the pool on: an entry is taken
\* unless it is None, its identity hash is already selected or confirmed, or
\* its signature does not verify; the scan ends with the pool or at the cap
RECURSIVE Eligible(_, _)
Eligible(i, selected) ==
    IF i > Len(pending_transactions) \/ Len(selected) >= MAX_TRANSACTIONS_PER_BLOCK
    THEN selected
    ELSE LET t == pending_transactions[i]
         IN  IF \/ t = NoneTx
                \/ \E j \in 1..Len(selected) : tx_hash(selected[j]) = tx_hash(t)
                \/ ConfirmedHash(tx_hash(t))
                \/ ~verify(t)
             THEN Eligible(i + 1, selected)
             ELSE Eligible(i + 1, Append(selected, t))

\* C19: all but the last transaction of the block get_minable_block returns
\* are, in the order of the pool, the first entries (50 at most) that are not
\* None, whose identity hash is not yet selected, that no confirmed block
\* holds and whose signature verifies; a None entry is skipped and the
\* entries after it are still considered.
C19_TemplateSelection ==
    (ret.op = "get_minable_block" /\ ret.value = "Block")
        => AllButLast(candidate.transactions) = Eligible(1, <<>>)

\* the balances of the addresses other than "0", summed, on a chain bs
Supply(bs) ==
    get_balance(bs, Addr1) + get_balance(bs, Addr2) + get_balance(bs, Addr3)

\* what a chain of these blocks may hold at most: 20 coins for each block of
\* index 0 and the base reward for each other block
SupplyBound(bs) ==
    SumSeq([i \in 1..Len(bs) |->
               IF bs[i].index = 0 THEN 20 ELSE get_reward(bs[i].index)])

\* C20: with verify failing for every transaction from "0", a confirmed block
\* of index > 0 has raised the sum of the balances of the addresses other
\* than "0" by at most the base reward of 10, and the sum is at most 20 for
\* each confirmed block of index 0 plus 10 for each confirmed block of
\* index > 0.
C20_NoInflation ==
    /\ \A i \in 1..Len(blocks) :
           blocks[i].index > 0
               => Supply(SubSeq(blocks, 1, i)) - Supply(SubSeq(blocks, 1, i - 1))
                      <= get_reward(blocks[i].index)
    /\ Supply(blocks) <= SupplyBound(blocks)

\* a block whose reward carries a fee was accepted after two blocks of index
\* 0, and the sum of the balances is as large as C20 allows
C20_Witness ==
    /\ ret.op = "add_block" /\ ret.value = "True"
    /\ Len(blocks) = 3
    /\ blocks[2].index = 0
    /\ blocks[3].index > 0
    /\ Fees(AllButLast(blocks[3].transactions)) > 0
    /\ Supply(blocks) = SupplyBound(blocks)
    /\ \A t \in UserTransactions : t.source = Sentinel => ~verify(t)

====
